---- MODULE Spec2Model ----
(***************************************************************************)
(* Ditto::Result<Ok, Err> (include/ditto/result.h): a manually tagged      *)
(* union over raw aligned storage, its two single-payload                  *)
(* specializations Result<Ok, void> and Result<void, Err>, and the         *)
(* PROPAGATE macro.                                                        *)
(*                                                                         *)
(* The payload types are template parameters.  They are modelled as the    *)
(* general case the template admits: a class that owns a resource (such as *)
(* std::string).  The bytes of such a payload hold a handle to a heap      *)
(* cell; the payload's own constructor allocates the cell, its own move    *)
(* constructor takes the handle and leaves the source empty, its           *)
(* destructor frees the cell.  m_memory_buffer is the raw bytes, so what   *)
(* the model keeps for it is the handle stored in those bytes.             *)
(*                                                                         *)
(* The program is single threaded (no concurrency in the header): one      *)
(* operation runs at a time, and a fatal DITTO_VERIFY ends the process.    *)
(***************************************************************************)
EXTENDS Integers, FiniteSets, Sequences, TLC

\* ---- bounds of the model: Result objects alive at the same time, payload
\* resources ever allocated in one run, payload values 0..MaxVal
MaxObjs == 2
MaxHeap == 2
MaxVal == 1

Slots   == 1..MaxObjs
Handles == 1..MaxHeap
Vals    == 0..MaxVal
Forms   == {"full", "okonly", "erronly"}

\* ---- contents of the raw buffer / of a returned reference
Uninit == -1      \* bytes no payload was ever placed in
Moved  == 0       \* a payload that was moved from by its own move operation
NoRef  == -2      \* no reference was returned (the call did not return)

\* the failure payload of the divide scenario
DivideByZero == 1

VARIABLES
  form,      \* which of the three class templates this program instantiates
  objs,      \* the Result objects of the caller: alive, m_is_ok, m_memory_buffer
  heap,      \* the resources owned by payload objects
  aborted,   \* DITTO_VERIFY failed: the process is terminated
  diag,      \* the failed check's diagnostic: the accessor, the m_is_ok it saw
  fn         \* the frame of a function whose body uses PROPAGATE

vars == <<form, objs, heap, aborted, diag, fn>>

\* ------------------------------------------------------------------------
\* The payload type's own operations (the Ok / Err template arguments)
\* ------------------------------------------------------------------------
FreeCell == [st |-> "unalloc", ty |-> "none", val |-> 0, dtors |-> 0]

HasFresh(hp) == \E h \in Handles : hp[h].st = "unalloc"

Fresh(hp) ==
  CHOOSE h \in Handles :
    /\ hp[h].st = "unalloc"
    /\ \A g \in Handles : hp[g].st = "unalloc" => h <= g

\* new (&m_memory_buffer) T{...}: the payload's constructor allocates cell h
PayloadNew(hp, h, ty, v) ==
  [hp EXCEPT ![h] = [st |-> "live", ty |-> ty, val |-> v, dtors |-> 0]]

\* p->~T() on the payload whose bytes are b: frees the cell the bytes name.
\* A moved-from payload owns nothing.  dtors counts the destructor runs
\* on the cell (2 stands for "more than once").
PayloadDtor(hp, b) ==
  IF b \in Handles
    THEN [hp EXCEPT ![b] = [st |-> "freed", ty |-> "none", val |-> 0,
                            dtors |-> IF hp[b].dtors < 2
                                        THEN hp[b].dtors + 1 ELSE 2]]
    ELSE hp

\* T{std::move(p)} taken from the payload whose bytes are b: the new object
\* owns the cell, the source is left moved-from
PayloadMove(b) == [dst |-> b, src |-> IF b \in Handles THEN Moved ELSE b]

\* the values a read of the payload with bytes b can give.  Reading a freed
\* cell or bytes that were never a payload is undefined: any value.
PayloadRead(hp, b) ==
  IF b \in Handles /\ hp[b].st = "live" THEN {hp[b].val}
  ELSE IF b = Moved THEN {0}
  ELSE Vals

\* ------------------------------------------------------------------------
\* class Result: members, constructors, queries, accessors, destructor
\* ------------------------------------------------------------------------
\* a slot of the caller that holds no object
Dead == [alive |-> FALSE, m_is_ok |-> FALSE, m_memory_buffer |-> Uninit]

\* Result() = default, with bool m_is_ok = false: the private staging object
Staging == [alive |-> TRUE, m_is_ok |-> FALSE, m_memory_buffer |-> Uninit]

\* a variant of Result(Ok val) that leaves m_is_ok at its default
Result_Ok_FlagNotSet(h) ==
  [alive |-> TRUE, m_is_ok |-> FALSE, m_memory_buffer |-> h]

\* Result(Ok val): payload placed (h), m_is_ok = true
Result_Ok(h) == [alive |-> TRUE, m_is_ok |-> TRUE, m_memory_buffer |-> h]

\* Result(Err val): payload placed (h), m_is_ok = false
Result_Err(h) == [alive |-> TRUE, m_is_ok |-> FALSE, m_memory_buffer |-> h]

\* static Result ok(Args...): staging object, placement new, m_is_ok = true.
\* The named local is returned with the copy elided (GCC and Clang, the
\* compilers that accept PROPAGATE's statement expression, always do).
ok(h) == [Staging EXCEPT !.m_memory_buffer = h, !.m_is_ok = TRUE]

\* static Result error(Args...)
error(h) == [Staging EXCEPT !.m_memory_buffer = h, !.m_is_ok = FALSE]

\* a variant of Result<void, Err>::ok() that forgets result.m_is_ok = true
ok_void_FlagNotSet == Staging

\* Result<void, Err>::ok(): no payload, m_is_ok = true
ok_void == [Staging EXCEPT !.m_is_ok = TRUE]

\* Result<Ok, void>::error(): return Result{}
error_void == Staging

is_error(r) == ~r.m_is_ok
is_ok(r) == r.m_is_ok

\* a variant of DITTO_VERIFY that checks nothing
DITTO_VERIFY_Disabled(cond) == TRUE

\* DITTO_VERIFY(cond): FALSE is the fatal path
DITTO_VERIFY(cond) == cond

\* ok_value() & and &&: the check, then a reference to the buffer
ok_value(r) ==
  IF DITTO_VERIFY(r.m_is_ok)
    THEN [fatal |-> FALSE, ref |-> r.m_memory_buffer]
    ELSE [fatal |-> TRUE, ref |-> NoRef]

\* a variant of error_value() that verifies ok_value()'s condition
error_value_WrongCheck(r) ==
  IF r.m_is_ok
    THEN [fatal |-> FALSE, ref |-> r.m_memory_buffer]
    ELSE [fatal |-> TRUE, ref |-> NoRef]

\* error_value() & and &&
error_value(r) ==
  IF DITTO_VERIFY(~r.m_is_ok)
    THEN [fatal |-> FALSE, ref |-> r.m_memory_buffer]
    ELSE [fatal |-> TRUE, ref |-> NoRef]

\* does ~Result() run a payload destructor on the buffer
RunsPayloadDtor(f, r) ==
  CASE f = "full"    -> TRUE
    [] f = "okonly"  -> r.m_is_ok
    [] f = "erronly" -> ~r.m_is_ok

\* ~Result(): the heap after the destructor of r
Result_dtor(f, hp, r) ==
  IF RunsPayloadDtor(f, r) THEN PayloadDtor(hp, r.m_memory_buffer) ELSE hp

\* Result(const Result&) = default: member-wise, the buffer's bytes copied
Result_copy(src) == [dst |-> src, src |-> src]

\* Result(Result&&) = default: bool and raw storage move as they copy
Result_move(src) == [dst |-> src, src |-> src]

\* operator=(const Result&) = default
assign_copy(dst, src) == [dst |-> src, src |-> src]

\* operator=(Result&&) = default
assign_move(dst, src) == [dst |-> src, src |-> src]

\* ------------------------------------------------------------------------
\* PROPAGATE(expression), used in a function returning Result<Ok, Err>:
\*   Result<int, DivideError> caller(a, b) {
\*     int q = PROPAGATE(divide(a, b));  <statement>;  return q; }
\* ------------------------------------------------------------------------
\* divide(a, b): Result::ok(a / b) when b != 0, Result::error(DivideByZero)
divide(a, b) ==
  IF b # 0 THEN [isok |-> TRUE, val |-> a \div b]
           ELSE [isok |-> FALSE, val |-> DivideByZero]

\* one evaluation of the expression divide(a, b): the Result it returns and
\* the heap with the payload it constructed
Expression(hp, a, b) ==
  LET d == divide(a, b)
      h == Fresh(hp)
  IN  [heap   |-> PayloadNew(hp, h, IF d.isok THEN "Ok" ELSE "Err", d.val),
       result |-> IF d.isok THEN ok(h) ELSE error(h)]

\* a variant of the macro without the early return: on a failure it falls
\* through to std::move(_result).ok_value()
PROPAGATE_NoEarlyReturn(hp, a, b) ==
  LET e == Expression(hp, a, b)
      res == e.result
      acc == ok_value(res)
      m == PayloadMove(IF acc.fatal THEN Moved ELSE acc.ref)
      gone == [res EXCEPT !.m_memory_buffer =
                 IF acc.fatal THEN res.m_memory_buffer ELSE m.src]
  IN  [evals |-> 1, fatal |-> acc.fatal, returned |-> FALSE,
       ret |-> Dead, q |-> m.dst,
       heap |-> Result_dtor("full", e.heap, gone)]

\* The macro: auto _result = expression; if (_result.is_error()) return
\* std::move(_result).error_value(); std::move(_result).ok_value();
\* "returned" with "ret" is the return statement: the enclosing function's
\* Result is built by Result(Err val) from the payload moved out of _result.
\* Otherwise "q" is the value of the statement expression, moved out of
\* _result.  _result is destroyed when the statement expression ends.
PROPAGATE(hp, a, b) ==
  LET e == Expression(hp, a, b)
      res == e.result
  IN  IF is_error(res)
        THEN LET acc == error_value(res)
                 m == PayloadMove(acc.ref)
                 gone == [res EXCEPT !.m_memory_buffer = m.src]
             IN  [evals |-> 1, fatal |-> acc.fatal, returned |-> TRUE,
                  ret |-> Result_Err(m.dst), q |-> NoRef,
                  heap |-> Result_dtor("full", e.heap, gone)]
        ELSE LET acc == ok_value(res)
                 m == PayloadMove(acc.ref)
                 gone == [res EXCEPT !.m_memory_buffer = m.src]
             IN  [evals |-> 1, fatal |-> acc.fatal, returned |-> FALSE,
                  ret |-> Dead, q |-> m.dst,
                  heap |-> Result_dtor("full", e.heap, gone)]

\* ------------------------------------------------------------------------
\* State
\* ------------------------------------------------------------------------
Idle == [pc |-> "idle", a |-> 0, b |-> 0, evals |-> 0, q |-> NoRef,
         after |-> 0, ret |-> Dead]

NoDiag == [by |-> "none", m_is_ok |-> FALSE]

Init ==
  /\ form \in Forms
  /\ objs = [i \in Slots |-> Dead]
  /\ heap = [h \in Handles |-> FreeCell]
  /\ aborted = FALSE
  /\ diag = NoDiag
  /\ fn = Idle

Running == ~aborted /\ fn.pc = "idle"

HasOk  == form \in {"full", "okonly"}
HasErr == form \in {"full", "erronly"}

\* DITTO_VERIFY failed: the process is terminated and nothing of its
\* memory remains
Terminate(by, flag) ==
  /\ aborted' = TRUE
  /\ diag' = [by |-> by, m_is_ok |-> flag]
  /\ objs' = [i \in Slots |-> Dead]
  /\ heap' = [h \in Handles |-> FreeCell]

\* Slots are only names: the objects alive are kept in the first slots, in
\* the order of their construction.  A new object takes the first unused
\* slot, and the slot of a destroyed object is closed up.
NewSlot(i) == ~objs[i].alive /\ \A k \in Slots : ~objs[k].alive => i <= k

Without(i) ==
  [k \in Slots |-> IF k < i THEN objs[k]
                   ELSE IF k + 1 \in Slots THEN objs[k + 1] ELSE Dead]

\* ------------------------------------------------------------------------
\* Operations of the caller
\* ------------------------------------------------------------------------
\* Result<Ok, Err> r = v;   (implicit constructor from Ok)
Construct_Ok(i, v) ==
  /\ Running /\ HasOk /\ NewSlot(i) /\ HasFresh(heap)
  /\ LET h == Fresh(heap) IN
       /\ heap' = PayloadNew(heap, h, "Ok", v)
       /\ objs' = [objs EXCEPT ![i] = Result_Ok(h)]
  /\ UNCHANGED <<form, aborted, diag, fn>>

\* Result<Ok, Err> r = e;   (implicit constructor from Err)
Construct_Err(i, e) ==
  /\ Running /\ HasErr /\ NewSlot(i) /\ HasFresh(heap)
  /\ LET h == Fresh(heap) IN
       /\ heap' = PayloadNew(heap, h, "Err", e)
       /\ objs' = [objs EXCEPT ![i] = Result_Err(h)]
  /\ UNCHANGED <<form, aborted, diag, fn>>

\* auto r = Result::ok(v);
Factory_ok(i, v) ==
  /\ Running /\ HasOk /\ NewSlot(i) /\ HasFresh(heap)
  /\ LET h == Fresh(heap) IN
       /\ heap' = PayloadNew(heap, h, "Ok", v)
       /\ objs' = [objs EXCEPT ![i] = ok(h)]
  /\ UNCHANGED <<form, aborted, diag, fn>>

\* auto r = Result<void, Err>::ok();
Factory_ok_void(i) ==
  /\ Running /\ form = "erronly" /\ NewSlot(i)
  /\ objs' = [objs EXCEPT ![i] = ok_void]
  /\ UNCHANGED <<form, heap, aborted, diag, fn>>

\* auto r = Result::error(e);
Factory_error(i, e) ==
  /\ Running /\ HasErr /\ NewSlot(i) /\ HasFresh(heap)
  /\ LET h == Fresh(heap) IN
       /\ heap' = PayloadNew(heap, h, "Err", e)
       /\ objs' = [objs EXCEPT ![i] = error(h)]
  /\ UNCHANGED <<form, aborted, diag, fn>>

\* auto r = Result<Ok, void>::error();
Factory_error_void(i) ==
  /\ Running /\ form = "okonly" /\ NewSlot(i)
  /\ objs' = [objs EXCEPT ![i] = error_void]
  /\ UNCHANGED <<form, heap, aborted, diag, fn>>

\* r.is_ok(): const, the caller gets is_ok(objs[i])
Call_is_ok(i) ==
  /\ Running /\ objs[i].alive
  /\ is_ok(objs[i]) \in BOOLEAN
  /\ UNCHANGED vars

\* r.is_error(): const, the caller gets is_error(objs[i])
Call_is_error(i) ==
  /\ Running /\ objs[i].alive
  /\ is_error(objs[i]) \in BOOLEAN
  /\ UNCHANGED vars

\* What the caller does with the reference an accessor returned:
\* read it, assign w through it (borrowed), or move-construct a payload
\* of its own from it (consumed), a temporary that is destroyed at the end
\* of the caller's statement.  Assigning to a moved-from payload gives
\* it a new cell; a write through bytes whose cell was freed is undefined
\* and no later read can tell what it did.
UseRead(i) == UNCHANGED <<objs, heap>>

UseWrite(i, w) ==
  LET b == objs[i].m_memory_buffer IN
    IF b \in Handles
      THEN /\ objs' = objs
           /\ heap' = IF heap[b].st = "freed" THEN heap
                      ELSE [heap EXCEPT ![b].val = w]
      ELSE /\ HasFresh(heap)
           /\ LET h == Fresh(heap) IN
                /\ heap' = PayloadNew(heap, h,
                             IF objs[i].m_is_ok THEN "Ok" ELSE "Err", w)
                /\ objs' = [objs EXCEPT ![i].m_memory_buffer = h]

\* a variant in which consuming the payload also marks the Result consumed
\* by flipping its discriminant
UseTake_MarksConsumed(i) ==
  LET b == objs[i].m_memory_buffer
      m == PayloadMove(b) IN
    /\ objs' = [objs EXCEPT ![i].m_memory_buffer = m.src,
                            ![i].m_is_ok = ~objs[i].m_is_ok]
    /\ heap' = PayloadDtor(heap, m.dst)

UseTake(i) ==
  LET b == objs[i].m_memory_buffer
      m == PayloadMove(b) IN
    /\ objs' = [objs EXCEPT ![i].m_memory_buffer = m.src]
    /\ heap' = PayloadDtor(heap, m.dst)

\* r.ok_value() read
Call_ok_value(i) ==
  /\ Running /\ HasOk /\ objs[i].alive
  /\ IF ok_value(objs[i]).fatal
       THEN Terminate("ok_value", objs[i].m_is_ok)
       ELSE UseRead(i) /\ UNCHANGED <<aborted, diag>>
  /\ UNCHANGED <<form, fn>>

\* r.ok_value() = w;
Assign_ok_value(i, w) ==
  /\ Running /\ HasOk /\ objs[i].alive
  /\ IF ok_value(objs[i]).fatal
       THEN Terminate("ok_value", objs[i].m_is_ok)
       ELSE UseWrite(i, w) /\ UNCHANGED <<aborted, diag>>
  /\ UNCHANGED <<form, fn>>

\* Ok x = std::move(r).ok_value();
Take_ok_value(i) ==
  /\ Running /\ HasOk /\ objs[i].alive
  /\ IF ok_value(objs[i]).fatal
       THEN Terminate("ok_value", objs[i].m_is_ok)
       ELSE UseTake(i) /\ UNCHANGED <<aborted, diag>>
  /\ UNCHANGED <<form, fn>>

\* r.error_value() read
Call_error_value(i) ==
  /\ Running /\ HasErr /\ objs[i].alive
  /\ IF error_value(objs[i]).fatal
       THEN Terminate("error_value", objs[i].m_is_ok)
       ELSE UseRead(i) /\ UNCHANGED <<aborted, diag>>
  /\ UNCHANGED <<form, fn>>

\* r.error_value() = w;
Assign_error_value(i, w) ==
  /\ Running /\ HasErr /\ objs[i].alive
  /\ IF error_value(objs[i]).fatal
       THEN Terminate("error_value", objs[i].m_is_ok)
       ELSE UseWrite(i, w) /\ UNCHANGED <<aborted, diag>>
  /\ UNCHANGED <<form, fn>>

\* Err x = std::move(r).error_value();
Take_error_value(i) ==
  /\ Running /\ HasErr /\ objs[i].alive
  /\ IF error_value(objs[i]).fatal
       THEN Terminate("error_value", objs[i].m_is_ok)
       ELSE UseTake(i) /\ UNCHANGED <<aborted, diag>>
  /\ UNCHANGED <<form, fn>>

\* Result c{r};
Copy_construct(i, j) ==
  /\ Running /\ objs[i].alive /\ NewSlot(j)
  /\ LET c == Result_copy(objs[i]) IN
       objs' = [objs EXCEPT ![j] = c.dst, ![i] = c.src]
  /\ UNCHANGED <<form, heap, aborted, diag, fn>>

\* Result c{std::move(r)};
Move_construct(i, j) ==
  /\ Running /\ objs[i].alive /\ NewSlot(j)
  /\ LET c == Result_move(objs[i]) IN
       objs' = [objs EXCEPT ![j] = c.dst, ![i] = c.src]
  /\ UNCHANGED <<form, heap, aborted, diag, fn>>

\* c = r;
Copy_assign(i, j) ==
  /\ Running /\ i # j /\ objs[i].alive /\ objs[j].alive
  /\ LET c == assign_copy(objs[j], objs[i]) IN
       objs' = [objs EXCEPT ![j] = c.dst, ![i] = c.src]
  /\ UNCHANGED <<form, heap, aborted, diag, fn>>

\* c = std::move(r);
Move_assign(i, j) ==
  /\ Running /\ i # j /\ objs[i].alive /\ objs[j].alive
  /\ LET c == assign_move(objs[j], objs[i]) IN
       objs' = [objs EXCEPT ![j] = c.dst, ![i] = c.src]
  /\ UNCHANGED <<form, heap, aborted, diag, fn>>

\* r goes out of scope
Destroy(i) ==
  /\ Running /\ objs[i].alive
  /\ heap' = Result_dtor(form, heap, objs[i])
  /\ objs' = Without(i)
  /\ UNCHANGED <<form, aborted, diag, fn>>

\* caller(a, b) is entered and runs up to the end of its PROPAGATE
Fn_propagate(a, b) ==
  /\ Running /\ form = "full" /\ HasFresh(heap)
  /\ LET p == PROPAGATE(heap, a, b) IN
       IF p.fatal
         THEN /\ Terminate("PROPAGATE", ~p.returned)
              /\ fn' = [Idle EXCEPT !.pc = "aborted", !.a = a, !.b = b]
         ELSE /\ heap' = p.heap
              /\ fn' = [pc |-> IF p.returned THEN "returned" ELSE "cont",
                        a |-> a, b |-> b, evals |-> p.evals, q |-> p.q,
                        after |-> 0, ret |-> p.ret]
              /\ UNCHANGED <<objs, aborted, diag>>
  /\ UNCHANGED form

\* the statements after the PROPAGATE: <statement>; return q;
Fn_continue ==
  /\ ~aborted /\ fn.pc = "cont"
  /\ fn' = [fn EXCEPT !.pc = "returned", !.after = 1, !.q = NoRef,
                      !.ret = Result_Ok(fn.q)]
  /\ UNCHANGED <<form, objs, heap, aborted, diag>>

\* the function's caller drops the Result it got back
Fn_return ==
  /\ ~aborted /\ fn.pc = "returned"
  /\ heap' = Result_dtor("full", heap, fn.ret)
  /\ fn' = Idle
  /\ UNCHANGED <<form, objs, aborted, diag>>

Next ==
  \/ \E i \in Slots, v \in Vals : Construct_Ok(i, v)
  \/ \E i \in Slots, e \in Vals : Construct_Err(i, e)
  \/ \E i \in Slots, v \in Vals : Factory_ok(i, v)
  \/ \E i \in Slots : Factory_ok_void(i)
  \/ \E i \in Slots, e \in Vals : Factory_error(i, e)
  \/ \E i \in Slots : Factory_error_void(i)
  \/ \E i \in Slots : Call_is_ok(i)
  \/ \E i \in Slots : Call_is_error(i)
  \/ \E i \in Slots : Call_ok_value(i)
  \/ \E i \in Slots, w \in Vals : Assign_ok_value(i, w)
  \/ \E i \in Slots : Take_ok_value(i)
  \/ \E i \in Slots : Call_error_value(i)
  \/ \E i \in Slots, w \in Vals : Assign_error_value(i, w)
  \/ \E i \in Slots : Take_error_value(i)
  \/ \E i \in Slots, j \in Slots : Copy_construct(i, j)
  \/ \E i \in Slots, j \in Slots : Move_construct(i, j)
  \/ \E i \in Slots, j \in Slots : Copy_assign(i, j)
  \/ \E i \in Slots, j \in Slots : Move_assign(i, j)
  \/ \E i \in Slots : Destroy(i)
  \/ \E a \in Vals, b \in Vals : Fn_propagate(a, b)
  \/ Fn_continue
  \/ Fn_return

Spec == Init /\ [][Next]_vars

\* The lifecycle operations alone: construction, move and copy
\* construction, move and copy assignment, destruction
NextLifecycle ==
  \/ \E i \in Slots, v \in Vals : Construct_Ok(i, v)
  \/ \E i \in Slots, e \in Vals : Construct_Err(i, e)
  \/ \E i \in Slots, v \in Vals : Factory_ok(i, v)
  \/ \E i \in Slots : Factory_ok_void(i)
  \/ \E i \in Slots, e \in Vals : Factory_error(i, e)
  \/ \E i \in Slots : Factory_error_void(i)
  \/ \E i \in Slots, j \in Slots : Move_construct(i, j)
  \/ \E i \in Slots, j \in Slots : Copy_construct(i, j)
  \/ \E i \in Slots, j \in Slots : Move_assign(i, j)
  \/ \E i \in Slots, j \in Slots : Copy_assign(i, j)
  \/ \E i \in Slots : Destroy(i)

SpecLifecycle == Init /\ [][NextLifecycle]_vars

\* ------------------------------------------------------------------------
\* Properties
\* ------------------------------------------------------------------------
\* the values the payload of r reads as through ok_value() / error_value()
OkPayload(hp, r) == PayloadRead(hp, ok_value(r).ref)
ErrPayload(hp, r) == PayloadRead(hp, error_value(r).ref)

\* C1: a full-form Result built from a success value v, by Result(Ok) or by
\* Result::ok(v), answers is_ok() true and is_error() false, and its
\* ok_value() does not take the fatal path and refers to a payload that
\* reads as v.
C1_OkConstruction ==
  [][\A i \in Slots, v \in Vals :
       (form = "full" /\ ~objs[i].alive /\ objs'[i].alive
          /\ (Construct_Ok(i, v) \/ Factory_ok(i, v))) =>
         /\ is_ok(objs'[i]) /\ ~is_error(objs'[i])
         /\ ~ok_value(objs'[i]).fatal
         /\ OkPayload(heap', objs'[i]) = {v}]_vars

C1_Witness ==
  /\ form = "full"
  /\ \E i \in Slots :
       /\ objs[i].alive /\ is_ok(objs[i])
       /\ OkPayload(heap, objs[i]) = {MaxVal}

\* C2: a full-form Result built from a failure value e, by Result(Err) or
\* by Result::error(e), answers is_error() true and is_ok() false, and its
\* error_value() does not take the fatal path and refers to a payload that
\* reads as e.
C2_ErrConstruction ==
  [][\A i \in Slots, e \in Vals :
       (form = "full" /\ ~objs[i].alive /\ objs'[i].alive
          /\ (Construct_Err(i, e) \/ Factory_error(i, e))) =>
         /\ is_error(objs'[i]) /\ ~is_ok(objs'[i])
         /\ ~error_value(objs'[i]).fatal
         /\ ErrPayload(heap', objs'[i]) = {e}]_vars

C2_Witness ==
  /\ form = "full"
  /\ \E i \in Slots :
       /\ objs[i].alive /\ is_error(objs[i])
       /\ ErrPayload(heap, objs[i]) = {MaxVal}

\* C3: in every form, ok_value() on a Result whose discriminant is "error"
\* and error_value() on one whose discriminant is "ok" take the fatal path
\* and return no payload reference; the accessor that matches the
\* discriminant returns the reference to the buffer and is not fatal.  The
\* process is terminated only by an accessor call (borrowing or consuming)
\* that saw the wrong discriminant.
C3_AccessorResults ==
  \A i \in Slots : objs[i].alive =>
    /\ HasOk =>
         /\ ok_value(objs[i]).fatal <=> ~objs[i].m_is_ok
         /\ ok_value(objs[i]).ref =
              IF objs[i].m_is_ok THEN objs[i].m_memory_buffer ELSE NoRef
    /\ HasErr =>
         /\ error_value(objs[i]).fatal <=> objs[i].m_is_ok
         /\ error_value(objs[i]).ref =
              IF objs[i].m_is_ok THEN NoRef ELSE objs[i].m_memory_buffer

C3_WrongAccessorIsFatal ==
  /\ C3_AccessorResults
  /\ aborted =>
       \/ diag.by = "ok_value" /\ ~diag.m_is_ok
       \/ diag.by = "error_value" /\ diag.m_is_ok

C3_Witness == aborted /\ form = "okonly" /\ diag.by = "ok_value"

\* C4: a copy (copy construction or copy assignment) has the source's
\* discriminant and a payload that reads as the source's, and it is a
\* payload of its own: assigning through a Result's accessor changes the
\* payload of no other Result.
C4_CopyValueSemantics ==
  [][/\ \A i \in Slots, j \in Slots :
          (Copy_construct(i, j) \/ Copy_assign(i, j)) =>
            /\ objs'[j].m_is_ok = objs[i].m_is_ok
            /\ PayloadRead(heap', objs'[j].m_memory_buffer)
                 = PayloadRead(heap, objs[i].m_memory_buffer)
     /\ \A j \in Slots, w \in Vals :
          (Assign_ok_value(j, w) \/ Assign_error_value(j, w)) =>
            \A i \in Slots \ {j} :
              objs[i].alive =>
                PayloadRead(heap', objs'[i].m_memory_buffer)
                  = PayloadRead(heap, objs[i].m_memory_buffer)]_vars

\* C5: move construction gives a destination with the source's discriminant
\* and a payload that reads as the source's did, and the payload is
\* transferred by the payload type's own move operation (which leaves the
\* source's payload moved-from).
C5_MoveRoundTrip ==
  [][\A i \in Slots, j \in Slots :
       Move_construct(i, j) =>
         /\ objs'[j].m_is_ok = objs[i].m_is_ok
         /\ PayloadRead(heap', objs'[j].m_memory_buffer)
              = PayloadRead(heap, objs[i].m_memory_buffer)
         /\ objs'[j].m_memory_buffer
              = PayloadMove(objs[i].m_memory_buffer).dst
         /\ objs'[i].m_memory_buffer
              = PayloadMove(objs[i].m_memory_buffer).src]_vars

\* C6: PROPAGATE evaluates its expression once.  On a failure the enclosing
\* function has returned that failure payload and none of its later
\* statements ran; on a success it has not returned by the macro, the
\* macro's value is the success payload, and the later statements run.
C6_Propagate ==
  /\ fn.pc \in {"cont", "returned"} => fn.evals = 1
  /\ (fn.pc \in {"cont", "returned"} /\ fn.b = 0) =>
       /\ fn.pc = "returned" /\ fn.after = 0
       /\ is_error(fn.ret) /\ ~error_value(fn.ret).fatal
       /\ ErrPayload(heap, fn.ret) = {DivideByZero}
  /\ (fn.pc \in {"cont", "returned"} /\ fn.b # 0) =>
       \/ /\ fn.pc = "cont" /\ fn.after = 0 /\ ~fn.ret.alive
          /\ PayloadRead(heap, fn.q) = {fn.a \div fn.b}
       \/ /\ fn.pc = "returned" /\ fn.after = 1
          /\ is_ok(fn.ret) /\ OkPayload(heap, fn.ret) = {fn.a \div fn.b}
  /\ fn.pc # "aborted"

C6_Witness ==
  /\ fn.pc = "returned" /\ fn.b = 0 /\ fn.a = MaxVal /\ fn.after = 0
  /\ ErrPayload(heap, fn.ret) = {DivideByZero}

\* C7: cleanup is exact: no payload is destroyed twice (no destructor runs
\* on storage whose payload is already destroyed), and once every Result
\* has been destroyed no payload is left undestroyed.
C7_ExactCleanup ==
  /\ \A h \in Handles : heap[h].dtors <= 1
  /\ ((\A i \in Slots : ~objs[i].alive) /\ fn.pc = "idle") =>
       \A h \in Handles : heap[h].st # "live"

\* C8: in the full form every Result the caller can observe holds exactly
\* the alternative its discriminant names: a constructed, undestroyed
\* payload of type Ok iff is_ok(), of type Err iff is_error(), and never
\* the payload-less staging state.
C8_OneAlternativeLive ==
  form = "full" =>
    \A i \in Slots : objs[i].alive =>
      /\ is_ok(objs[i]) # is_error(objs[i])
      /\ objs[i].m_memory_buffer # Uninit
      /\ objs[i].m_memory_buffer \in Handles =>
           /\ heap[objs[i].m_memory_buffer].st = "live"
           /\ is_ok(objs[i]) <=> heap[objs[i].m_memory_buffer].ty = "Ok"
           /\ is_error(objs[i]) <=> heap[objs[i].m_memory_buffer].ty = "Err"

\* C9: Result<Ok, void>::error() gives is_error() true and is_ok() false,
\* constructs no payload, and its destruction runs no payload destructor,
\* while ok(v) gives is_ok() true and a payload that reads as v;
\* symmetrically Result<void, Err>::ok() and error(e).
C9_SinglePayloadForms ==
  [][\A i \in Slots :
       /\ (form = "okonly" /\ ~objs[i].alive /\ objs'[i].alive
             /\ Factory_error_void(i)) =>
            /\ is_error(objs'[i]) /\ ~is_ok(objs'[i])
            /\ objs'[i].m_memory_buffer = Uninit /\ heap' = heap
            /\ ~RunsPayloadDtor(form, objs'[i])
            /\ Result_dtor(form, heap', objs'[i]) = heap'
       /\ (form = "erronly" /\ ~objs[i].alive /\ objs'[i].alive
             /\ Factory_ok_void(i)) =>
            /\ is_ok(objs'[i]) /\ ~is_error(objs'[i])
            /\ objs'[i].m_memory_buffer = Uninit /\ heap' = heap
            /\ ~RunsPayloadDtor(form, objs'[i])
            /\ Result_dtor(form, heap', objs'[i]) = heap'
       /\ \A v \in Vals :
            (form = "okonly" /\ ~objs[i].alive /\ objs'[i].alive
               /\ Factory_ok(i, v)) =>
              /\ is_ok(objs'[i]) /\ ~is_error(objs'[i])
              /\ ~ok_value(objs'[i]).fatal
              /\ OkPayload(heap', objs'[i]) = {v}
       /\ \A e \in Vals :
            (form = "erronly" /\ ~objs[i].alive /\ objs'[i].alive
               /\ Factory_error(i, e)) =>
              /\ is_error(objs'[i]) /\ ~is_ok(objs'[i])
              /\ ~error_value(objs'[i]).fatal
              /\ ErrPayload(heap', objs'[i]) = {e}]_vars

C9_Witness ==
  /\ form = "erronly"
  /\ \E i \in Slots, j \in Slots :
       /\ objs[i].alive /\ is_ok(objs[i])
       /\ objs[i].m_memory_buffer = Uninit
       /\ objs[j].alive /\ is_error(objs[j])
       /\ ErrPayload(heap, objs[j]) = {MaxVal}

\* C10: a query, a borrowing or consuming accessor that returns, and being
\* the source of a copy or a move leave the Result alive with the same
\* discriminant; and a consuming accessor called again on the instance it
\* left moved-from passes the discriminant check again.
C10_Reads(i) ==
  \/ Call_is_ok(i) \/ Call_is_error(i)
  \/ Call_ok_value(i) \/ Take_ok_value(i)
  \/ Call_error_value(i) \/ Take_error_value(i)
  \/ \E w \in Vals : Assign_ok_value(i, w) \/ Assign_error_value(i, w)
  \/ \E j \in Slots : Copy_construct(i, j) \/ Move_construct(i, j)
  \/ \E j \in Slots : Copy_assign(i, j) \/ Move_assign(i, j)

\* (read => same answers), written same answers \/ ~read
C10_ReadsKeepDiscriminant ==
  [][\A i \in Slots :
       /\ \/ ~objs[i].alive
          \/ /\ objs'[i].alive
             /\ is_ok(objs'[i]) = is_ok(objs[i])
             /\ is_error(objs'[i]) = is_error(objs[i])
          \/ aborted'
          \/ ~C10_Reads(i)
       /\ (aborted' /\ objs[i].m_is_ok /\ objs[i].m_memory_buffer = Moved)
            => ~Take_ok_value(i)
       /\ (aborted' /\ ~objs[i].m_is_ok /\ objs[i].m_memory_buffer = Moved)
            => ~Take_error_value(i)]_vars

C10_Witness ==
  /\ ~aborted
  /\ \E i \in Slots :
       /\ objs[i].alive /\ is_ok(objs[i])
       /\ objs[i].m_memory_buffer = Moved
       /\ ~ok_value(objs[i]).fatal

====
